---- MODULE Spec2Model ----
(***************************************************************************)
(* Retrieval & context assembly engine of the chat backend:                *)
(*   controllers/gemini.controller.js  sendMessage, getRelevantMessages,   *)
(*                                     getRelevantSummaries                *)
(*                                     sendImageMessage                    *)
(*   utils/embedding-utils.js          generateEmbedding, cosineSimilarity,*)
(*                                     findRelevantChunks, generateSummary,*)
(*                                     generateChunkEmbeddings             *)
(*   utils/file-utils.js               chunkText                           *)
(*   controllers/file.controller.js    uploadFile                          *)
(*                                                                         *)
(* Text is a sequence of one-character strings, an embedding a sequence of *)
(* integers, the empty sequence the empty embedding.  The document store,  *)
(* the embedding capability and the generation capability are the          *)
(* environment: every call of a capability either returns or fails, and    *)
(* the document store acknowledges every read and write of sendMessage;    *)
(* in sendImageMessage chat.save() may also raise.                         *)
(***************************************************************************)
EXTENDS Integers, Sequences, FiniteSets, TLC

\* ------------------------------------------------------------------ bounds
\* Requests issued in one behaviour.
MaxRequests == 2
\* Stream elements the generation capability delivers in one behaviour.
MaxFrags == 2
\* embeddingCache capacity; the source holds 1000 entries, scaled down so
\* that eviction happens within the bounded behaviours.
MaxCacheSize == 2
\* Length of the cache key prefix; the source takes the first 100
\* characters, scaled down so that distinct texts share a key.
CacheKeyLen == 2

\* ------------------------------------------------------- program constants
\* withRetry(..., { maxRetries: 2 })
maxRetries == 2
\* count argument of findRelevantChunks for files and for messages
TopK == 3
\* count argument of findRelevantChunks for summaries
SummaryTopK == 1
\* chat.messages.length > 10 && chat.messages.length % 10 === 0
SummaryEvery == 10
\* chat.messages.slice(-11, -1)
SummaryWindowStart == 11
\* chat.messages.length <= 5, slice(0, -5), slice(-6, -1)
RecentCount == 5
\* suggestedTitle.length > 50 ? substring(0, 47) + "..."
TitleMax == 50
TitleKeep == 47
\* message.length > 30 ? substring(0, 27) + "..."
FallbackMax == 30
FallbackKeep == 27
\* Math.min(1, chunk.text.length / 2000)
LengthNorm == 2000

\* ------------------------------------------------------------ JS helpers
Min(a, b) == IF a < b THEN a ELSE b
Max(a, b) == IF a > b THEN a ELSE b

\* Array.prototype.slice(start, end) with 0-based, possibly negative indices.
SliceIndex(len, i) == IF i < 0 THEN Max(len + i, 0) ELSE Min(i, len)
Slice(s, start, end) ==
    SubSeq(s, SliceIndex(Len(s), start) + 1, SliceIndex(Len(s), end))

\* The last element of a non-empty sequence.
Last(s) == s[Len(s)]

\* String.prototype.substring(0, n)
Substring(text, n) == SubSeq(text, 1, Min(n, Len(text)))

\* Array.prototype.flatMap / join over a sequence of sequences
RECURSIVE Flatten(_)
Flatten(ss) == IF ss = <<>> THEN <<>> ELSE Head(ss) \o Flatten(Tail(ss))

IsPrefix(s, t) == Len(s) <= Len(t) /\ SubSeq(t, 1, Len(s)) = s

Ellipsis == <<".", ".", ".">>

\* Array.prototype.join(sep) over a sequence of texts
RECURSIVE Join(_, _)
Join(ts, sep) ==
    IF ts = <<>> THEN <<>>
    ELSE IF Len(ts) = 1 THEN Head(ts)
    ELSE Head(ts) \o sep \o Join(Tail(ts), sep)

ParaSep == <<"\n\n">>

\* --------------------------------------------------------------- universe
\* The caller of every request (req.user._id) and another user.
Caller == "u1"
Users == {"u1", "u2"}
\* c1 belongs to the caller, c2 to the other user, c3 does not exist.
ChatIds == {"c1", "c2", "c3"}
\* Values the embedding capability returns (result.embedding.values).
Vectors == {<<1, 0>>}
\* req.body.message
Messages == {<<"h", "i">>}
\* chunk.text() of one stream element; the empty text is skipped by the code.
Frags == {<<>>, <<"x">>, <<"y">>}
\* result.response.text() of the summarization call
SummaryTexts == {<<"s">>}
\* titleResponse.response.text().trim()
Titles == {<<"T">>}
\* Title of a conversation no request has titled (the Chat model's default).
DefaultTitle == <<"N">>

\* File collection: f1 belongs to the caller and has one embedded chunk and
\* one chunk whose embedding failed; f2 belongs to the other user.
Files == <<
    [id |-> "f1", userId |-> "u1", fileName |-> <<"F", "1">>,
     chunks |-> << [text |-> <<"a">>, embedding |-> <<1, 0>>],
                   [text |-> <<"b">>, embedding |-> <<>>] >>],
    [id |-> "f2", userId |-> "u2", fileName |-> <<"F", "2">>,
     chunks |-> << [text |-> <<"z">>, embedding |-> <<0, 1>>] >>] >>
FileIds == {Files[i].id : i \in 1..Len(Files)}
\* req.body.fileIds: absent, or naming a file of each user.
FileIdSets == {{}, FileIds}

\* ------------------------------------------------------- embedding cache
\* embeddingCache is a Map: entries in insertion order.
CacheHas(cache, key) == \E i \in 1..Len(cache) : cache[i].key = key
CacheGet(cache, key) ==
    cache[CHOOSE i \in 1..Len(cache) : cache[i].key = key].value
\* Mutant of CacheSet: the entry is appended without looking for the key.
CacheSetAppend(cache, key, value) ==
    Append(cache, [key |-> key, value |-> value])
\* Map.prototype.set: an existing key keeps its position.
CacheSet(cache, key, value) ==
    IF CacheHas(cache, key)
    THEN [i \in 1..Len(cache) |->
            IF cache[i].key = key THEN [key |-> key, value |-> value]
            ELSE cache[i]]
    ELSE Append(cache, [key |-> key, value |-> value])
\* Mutant of CacheEvict: the newest entry is removed.
CacheEvictNewest(cache) ==
    IF Len(cache) > MaxCacheSize THEN SubSeq(cache, 1, Len(cache) - 1)
    ELSE cache
\* if (embeddingCache.size > 1000) delete(embeddingCache.keys().next().value)
CacheEvict(cache) == IF Len(cache) > MaxCacheSize THEN Tail(cache) ELSE cache

\* Number of invocations one withRetry(fn, {maxRetries: r}) call may make
\* before an invocation succeeds: the initial call plus r retries.
withRetryAttempts(r) == 1..(r + 1)

\* generateEmbedding(text): the outcomes of one call, each with the vector
\* returned (ok) or the exception raised (~ok), the cache afterwards, the
\* number of invocations of the embedding capability and whether every
\* invocation failed (exhausted).  With NODE_ENV = development (dev) an
\* exhausted call returns a random vector instead of raising; the random
\* vector is drawn from Vectors.
generateEmbedding(text, cache, dev) ==
    LET cacheKey == Substring(text, CacheKeyLen)
        budget == withRetryAttempts(maxRetries)
    IN  IF CacheHas(cache, cacheKey)
        THEN {[ok |-> TRUE, embedding |-> CacheGet(cache, cacheKey),
               cache |-> cache, calls |-> 0, exhausted |-> FALSE]}
        ELSE {[ok |-> TRUE, embedding |-> v,
               cache |-> CacheEvict(CacheSet(cache, cacheKey, v)),
               calls |-> k, exhausted |-> FALSE] : v \in Vectors, k \in budget}
             \cup
             (IF dev
              THEN {[ok |-> TRUE, embedding |-> v, cache |-> cache,
                     calls |-> Cardinality(budget), exhausted |-> TRUE]
                    : v \in Vectors}
              ELSE {[ok |-> FALSE, embedding |-> <<>>, cache |-> cache,
                     calls |-> Cardinality(budget), exhausted |-> TRUE]})

\* ----------------------------------------------------- cosine similarity
Dot(a, b) ==
    LET RECURSIVE Sum(_)
        Sum(i) == IF i = 0 THEN 0 ELSE a[i] * b[i] + Sum(i - 1)
    IN  Sum(Len(a))
\* Math.sqrt on the perfect squares that the model's vectors produce.
Sqrt(n) == CHOOSE r \in 0..n : r * r = n

\* Mutant of cosineSimilarity: no test of the norms before the division.
cosineSimilarityUnguarded(vecA, vecB) ==
    IF vecA = <<>> \/ vecB = <<>> \/ Len(vecA) # Len(vecB)
    THEN [n |-> 0, d |-> 1]
    ELSE [n |-> Dot(vecA, vecB),
          d |-> Sqrt(Dot(vecA, vecA)) * Sqrt(Dot(vecB, vecB))]

\* cosineSimilarity(vecA, vecB) as the exact fraction n / d, d > 0.
cosineSimilarity(vecA, vecB) ==
    IF vecA = <<>> \/ vecB = <<>> \/ Len(vecA) # Len(vecB)
    THEN [n |-> 0, d |-> 1]
    ELSE LET normA == Dot(vecA, vecA)
             normB == Dot(vecB, vecB)
         IN  IF normA = 0 \/ normB = 0 THEN [n |-> 0, d |-> 1]
             ELSE [n |-> Dot(vecA, vecB), d |-> Sqrt(normA) * Sqrt(normB)]

\* similarity * 0.7 + Math.min(1, text.length / 2000) * 0.3, as a fraction.
Score(queryEmbedding, chunk) ==
    LET sim == cosineSimilarity(queryEmbedding, chunk.embedding)
    IN  [n |-> 7 * sim.n * LengthNorm
                + 3 * Min(LengthNorm, Len(chunk.text)) * sim.d,
         d |-> 10 * sim.d * LengthNorm]
ScoreLess(x, y) == x.n * y.d < y.n * x.d

\* { ...chunk, score }
WithScore(chunk, score) ==
    [f \in DOMAIN chunk \cup {"score"} |->
        IF f = "score" THEN score ELSE chunk[f]]

\* scoredChunks.sort((a, b) => b.score - a.score): stable, descending.
\* The element at index j moves behind every element that scores higher
\* and every element of equal score that stood before it.
SortRank(s, j) ==
    1 + Cardinality({k \in 1..Len(s) :
                        \/ ScoreLess(s[j].score, s[k].score)
                        \/ (~ScoreLess(s[k].score, s[j].score) /\ k < j)})
\* Mutant of SortByScore: the scored chunks are left in input order.
InputOrder(s) == s
SortByScore(s) ==
    [i \in 1..Len(s) |-> s[CHOOSE j \in 1..Len(s) : SortRank(s, j) = i]]

HasEmbedding(x) == x.embedding # <<>>

\* Mutant of findRelevantChunks: no catch block, so a failed embedding of
\* the query leaves the call without a return.
findRelevantChunksUncaught(query, embeddedChunks, count, cache, dev) ==
    IF embeddedChunks = <<>>
    THEN {[result |-> <<>>, cache |-> cache, failed |-> FALSE]}
    ELSE {LET valid == SelectSeq(embeddedChunks, HasEmbedding)
              scoredChunks ==
                  [i \in 1..Len(valid) |->
                      WithScore(valid[i], Score(e.embedding, valid[i]))]
          IN  [result |-> Slice(SortByScore(scoredChunks), 0, count),
               cache |-> e.cache, failed |-> FALSE]
          : e \in {x \in generateEmbedding(query, cache, dev) : x.ok}}

\* findRelevantChunks(query, embeddedChunks, count): the outcomes of one
\* call, each with the chunks returned and the cache afterwards; failed
\* tells that the call caught an exception and returned [].
findRelevantChunks(query, embeddedChunks, count, cache, dev) ==
    IF embeddedChunks = <<>>
    THEN {[result |-> <<>>, cache |-> cache, failed |-> FALSE]}
    ELSE {IF ~e.ok
          THEN [result |-> <<>>, cache |-> e.cache, failed |-> TRUE]
          ELSE LET valid == SelectSeq(embeddedChunks, HasEmbedding)
                   scoredChunks ==
                       [i \in 1..Len(valid) |->
                           WithScore(valid[i], Score(e.embedding, valid[i]))]
               IN  [result |-> Slice(SortByScore(scoredChunks), 0, count),
                    cache |-> e.cache, failed |-> FALSE]
          : e \in generateEmbedding(query, cache, dev)}

\* ------------------------------------------------------------- summarizer
FallbackSummary == <<"Previous conversation covered various topics.">>

\* Mutant of generateSummary: a failed embedding of the generated text is
\* handled by the outer catch, which returns the fallback Summary.
generateSummaryOuterCatch(messages, cache, dev) ==
    {[text |-> FallbackSummary, embedding |-> <<>>, cache |-> cache,
      fault |-> "generation"]}
    \cup
    UNION {
      {IF e.ok
       THEN [text |-> summary, embedding |-> e.embedding, cache |-> e.cache,
             fault |-> "none"]
       ELSE [text |-> FallbackSummary, embedding |-> <<>>, cache |-> e.cache,
             fault |-> "embedding"]
       : e \in generateEmbedding(summary, cache, dev)}
      : summary \in SummaryTexts}

\* generateSummary(messages): the outcomes of one call, each with the
\* Summary text and embedding returned, the cache afterwards and the fault
\* the call absorbed ("generation": withRetry gave up on generateContent;
\* "embedding": generateEmbedding(summary) raised; "none").
generateSummary(messages, cache, dev) ==
    {[text |-> FallbackSummary, embedding |-> <<>>, cache |-> cache,
      fault |-> "generation"]}
    \cup
    UNION {
      {IF e.ok
       THEN [text |-> summary, embedding |-> e.embedding, cache |-> e.cache,
             fault |-> "none"]
       ELSE [text |-> summary, embedding |-> <<>>, cache |-> e.cache,
             fault |-> "embedding"]
       : e \in generateEmbedding(summary, cache, dev)}
      : summary \in SummaryTexts}

\* Mutant of shouldSummarize: the trigger also fires at 10 messages.
shouldSummarizeAtTen(messageCount) ==
    messageCount >= SummaryEvery /\ messageCount % SummaryEvery = 0

\* chat.messages.length > 10 && chat.messages.length % 10 === 0
shouldSummarize(messageCount) ==
    messageCount > SummaryEvery /\ messageCount % SummaryEvery = 0

\* ------------------------------------------------- conversation retrieval
SummaryLabel == <<"CONVERSATION SUMMARY: ">>

AsCandidate(x) == [text |-> x.text, embedding |-> x.embedding]
MessageAsCandidate(msg) == [text |-> msg.content, embedding |-> msg.embedding]
TextOf(x) == x.text
LabelledSummary(x) == SummaryLabel \o x.text

\* getRelevantSummaries(chat, query): outcomes with the context text.
getRelevantSummaries(chat, query, cache, dev) ==
    IF chat.summaries = <<>>
    THEN {[text |-> <<>>, cache |-> cache, failed |-> FALSE]}
    ELSE {[text |-> Join([k \in 1..Len(r.result) |->
                         LabelledSummary(r.result[k])], ParaSep),
           cache |-> r.cache, failed |-> r.failed]
          : r \in findRelevantChunks(query,
                [k \in 1..Len(chat.summaries) |->
                    AsCandidate(chat.summaries[k])],
                                     SummaryTopK, cache, dev)}

\* chat.messages.slice(0, -5).filter(msg => msg.embedding && ...)
messagesWithEmbeddings(chat) ==
    SelectSeq(Slice(chat.messages, 0, 0 - RecentCount), HasEmbedding)

\* getRelevantMessages(chat, query): outcomes with the context text.
getRelevantMessages(chat, query, cache, dev) ==
    IF Len(chat.messages) <= RecentCount
    THEN {[text |-> <<>>, cache |-> cache, failed |-> FALSE]}
    ELSE IF messagesWithEmbeddings(chat) = <<>>
         THEN getRelevantSummaries(chat, query, cache, dev)
         ELSE {[text |-> Join([k \in 1..Len(r.result) |->
                              TextOf(r.result[k])], ParaSep),
                cache |-> r.cache, failed |-> r.failed]
               : r \in findRelevantChunks(
                           query,
                           [k \in 1..Len(messagesWithEmbeddings(chat)) |->
                               MessageAsCandidate(
                                   messagesWithEmbeddings(chat)[k])],
                           TopK, cache, dev)}

\* ------------------------------------------------------------ file context
FileRef(file) == [fileId |-> file.id, fileName |-> file.fileName]
\* Mutant of OwnedFiles: the query has no userId condition.
FilesOfAnyUser(fileIds, userId) ==
    SelectSeq(Files, LAMBDA f : f.id \in fileIds)
\* File.find({ _id: { $in: fileIds }, userId: req.user._id })
OwnedFiles(fileIds, userId) ==
    SelectSeq(Files, LAMBDA f : f.id \in fileIds /\ f.userId = userId)
\* File.find({ _id: { $in: fileReferences.map(ref => ref.fileId) } })
ReferencedFiles(fileReferences) ==
    SelectSeq(Files, LAMBDA f :
        \E i \in 1..Len(fileReferences) : fileReferences[i].fileId = f.id)
\* referencedFiles.flatMap(file => file.chunks.map(chunk => ({...})))
AllChunks(referencedFiles) ==
    Flatten([i \in 1..Len(referencedFiles) |->
        [j \in 1..Len(referencedFiles[i].chunks) |->
            [text |-> referencedFiles[i].chunks[j].text,
             embedding |-> referencedFiles[i].chunks[j].embedding,
             fileName |-> referencedFiles[i].fileName]]])
\* `[From ${chunk.fileName}]: ${chunk.text}`
FormatFileChunk(chunk) ==
    <<"[From ">> \o chunk.fileName \o <<"]: ">> \o chunk.text

\* Lines 84-109 of sendMessage: outcomes with the file context text.
FileContext(message, fileReferences, cache, dev) ==
    IF fileReferences = <<>>
    THEN {[text |-> <<>>, cache |-> cache, failed |-> FALSE]}
    ELSE LET allChunks == AllChunks(ReferencedFiles(fileReferences))
         IN  IF allChunks = <<>>
             THEN {[text |-> <<>>, cache |-> cache, failed |-> FALSE]}
             ELSE {[text |-> Join([k \in 1..Len(r.result) |->
                                  FormatFileChunk(r.result[k])], ParaSep),
                    cache |-> r.cache, failed |-> r.failed]
                   : r \in findRelevantChunks(message, allChunks, TopK,
                                              cache, dev)}

\* ------------------------------------------------------------------ prompt
\* history: the last 5 messages before the new one, as generation turns.
HistoryTurn(msg) ==
    [role |-> IF msg.sender = "user" THEN "user" ELSE "model",
     text |-> msg.content]
\* chat.messages.slice(-6, -1)
recentMessages(chat) == Slice(chat.messages, 0 - (RecentCount + 1), 0 - 1)
History(chat) ==
    [k \in 1..Len(recentMessages(chat)) |-> HistoryTurn(recentMessages(chat)[k])]

\* contextPrompt + message
PromptWithContext(message, fileContext, relevantMessageContext) ==
    (IF fileContext # <<>> \/ relevantMessageContext # <<>>
     THEN <<"[System] Prioritize (70%) this context over general knowledge:\n\n">>
          \o (IF fileContext # <<>>
              THEN <<"FILE CONTEXT:\n">> \o fileContext \o <<"\n\n">>
              ELSE <<>>)
          \o (IF relevantMessageContext # <<>>
              THEN <<"CONVERSATION CONTEXT:\n">> \o relevantMessageContext
                   \o <<"\n\n">>
              ELSE <<>>)
          \o <<"Now answer the user's query based on this context and your knowledge.\n\n">>
     ELSE <<>>)
    \o message

\* ------------------------------------------------------------------- title
\* Mutant of TruncateTitle: the suggested title is stored as it came.
TruncateTitleKeepsAll(suggestedTitle) == suggestedTitle
\* suggestedTitle.length > 50 ? suggestedTitle.substring(0, 47) + "..." : ...
TruncateTitle(suggestedTitle) ==
    IF Len(suggestedTitle) > TitleMax
    THEN Substring(suggestedTitle, TitleKeep) \o Ellipsis
    ELSE suggestedTitle
\* message.length > 30 ? message.substring(0, 27) + "..." : message
FallbackTitle(message) ==
    IF Len(message) > FallbackMax
    THEN Substring(message, FallbackKeep) \o Ellipsis
    ELSE message

\* =================================================================== state
VARIABLES
    store,            \* Chat collection: conversation id -> document
    embeddingCache,   \* the module-level Map of embedding-utils.js
    io,               \* the socket.io reference set by setupSocketIo
    devMode,          \* process.env.NODE_ENV === 'development'
    pc,               \* position of the request in flight
    nreq,             \* requests received so far
    delivered,        \* stream elements delivered so far
    frame,            \* locals of the sendMessage call in flight
    events,           \* events emitted to the caller's room by this request
    response,         \* HTTP response of this request
    faults,           \* exceptions this request's calls have raised or absorbed
    summaryInput,     \* argument of this request's generateSummary call
    calls             \* calls of the utility functions made outside sendMessage

vars == <<store, embeddingCache, io, devMode, calls, pc, nreq, delivered, frame, events,
          response, faults, summaryInput>>

\* ------------------------------------------------------------- documents
UserMessage(content, embedding, fileRefs) ==
    [sender |-> "user", content |-> content, embedding |-> embedding,
     fileRefs |-> fileRefs]
AiMessage(content, embedding) ==
    [sender |-> "ai", content |-> content, embedding |-> embedding,
     fileRefs |-> <<>>]
NewChat(userId) ==
    [userId |-> userId, messages |-> <<>>, summaries |-> <<>>,
     title |-> DefaultTitle]

\* Conversations earlier runs of the server have left in the store.  A
\* request that failed after its user message was saved leaves a lone user
\* message; a completed request leaves a user message and an AI message.
\* Messages of sendImageMessage carry no embedding.
Digits == <<"1", "2", "3", "4", "5", "6", "7", "8", "9">>
PriorUser(k) == UserMessage(<<"q", Digits[k]>>, <<1, 0>>, <<>>)
PriorAi(k) == AiMessage(<<"r", Digits[k]>>, <<1, 0>>)
ImageUser(k) == UserMessage(<<"i", Digits[k]>>, <<>>, <<[fileName |-> <<"p">>]>>)
ImageAi(k) == AiMessage(<<"j", Digits[k]>>, <<>>)
\* k completed exchanges of sendMessage, the oldest first.
RECURSIVE Exchanges(_)
Exchanges(k) ==
    IF k = 0 THEN <<>> ELSE Exchanges(k - 1) \o <<PriorUser(k), PriorAi(k)>>
\* k completed exchanges of sendImageMessage, the oldest first.
RECURSIVE ImageExchanges(_)
ImageExchanges(k) ==
    IF k = 0 THEN <<>>
    ELSE ImageExchanges(k - 1) \o <<ImageUser(k), ImageAi(k)>>
\* The user message of a first request that failed after it was saved.
LoneUser == UserMessage(<<"h", "i">>, <<1, 0>>, <<>>)
\* No conversation of fewer than 20 messages has a Summary.  The title is
\* set by a completed request whose user message was the first message.
PriorChat(messages, title) ==
    [userId |-> Caller, messages |-> messages, summaries |-> <<>>,
     title |-> title]
InitChats ==
    { NewChat(Caller),
      PriorChat(<<LoneUser>> \o Exchanges(4), DefaultTitle),
      PriorChat(Exchanges(9), <<"T">>),
      PriorChat(<<LoneUser>> \o Exchanges(9), DefaultTitle),
      PriorChat(<<LoneUser>> \o ImageExchanges(9), DefaultTitle) }

\* The other user's conversation.
OtherChat ==
    [PriorChat(Exchanges(1), <<"T">>) EXCEPT !.userId = "u2"]

NoResponse == [status |-> 0]
\* No utility function has been called outside sendMessage.
NoCall == [op |-> "none"]
NoFrame ==
    [chatId |-> "none", message |-> <<>>, fileIds |-> {}, chat |-> NewChat(Caller),
     fileReferences |-> <<>>, isFirstMessage |-> FALSE, fileContext |-> <<>>,
     relevantMessageContext |-> <<>>, aiReply |-> <<>>, stream |-> <<>>,
     before |-> NewChat(Caller)]

Init ==
    /\ store \in {[id \in {"c1", "c2"} |->
                     IF id = "c1" THEN c ELSE OtherChat] : c \in InitChats}
    /\ embeddingCache = <<>>
    /\ io = TRUE
    /\ devMode \in BOOLEAN
    /\ pc = "idle"
    /\ nreq = 0
    /\ delivered = 0
    /\ frame = NoFrame
    /\ events = <<>>
    /\ response = NoResponse
    /\ faults = {}
    /\ summaryInput = <<>>
    /\ calls = NoCall

\* ------------------------------------------------------------ notifications
\* if (io) io.to(userId).emit(...)
Emit(log, event) == IF io THEN Append(log, event) ELSE log
Started(chatId) ==
    [type |-> "processing", chatId |-> chatId, status |-> "started"]
Completed(chatId, title) ==
    [type |-> "processing", chatId |-> chatId, status |-> "completed",
     title |-> title]
MessageChunk(chatId, chunk) ==
    [type |-> "message-chunk", chatId |-> chatId, chunk |-> chunk]
ErrorEvent(chatId, error) ==
    [type |-> "error", chatId |-> chatId, error |-> error]

EmbeddingFailure == "Failed to generate embedding"
GenerationFailure == "generation failed"

\* Mutant of Catch: the failure path rolls the user message back.
CatchRollsBack(err, fault) ==
    /\ events' = Emit(events, ErrorEvent(frame.chatId, err))
    /\ response' = [status |-> 500, message |-> "Gemini API failed",
                    error |-> err]
    /\ faults' = faults \cup {fault}
    /\ pc' = "done"
    /\ store' = [store EXCEPT ![frame.chatId] = frame.before]

\* Mutant of Catch: the failure path answers the caller but emits no event.
CatchWithoutEvent(err, fault) ==
    /\ events' = events
    /\ response' = [status |-> 500, message |-> "Gemini API failed",
                    error |-> err]
    /\ faults' = faults \cup {fault}
    /\ pc' = "done"
    /\ UNCHANGED store

\* catch (err) of sendMessage: error event, then the 500 response.
Catch(err, fault) ==
    /\ events' = Emit(events, ErrorEvent(frame.chatId, err))
    /\ response' = [status |-> 500, message |-> "Gemini API failed",
                    error |-> err]
    /\ faults' = faults \cup {fault}
    /\ pc' = "done"
    /\ UNCHANGED store

\* chat.save()
Save(chat) == [store EXCEPT ![frame.chatId] = chat]

\* ================================================================ actions
\* Mutant of ChatNotFound: the failed lookup is thrown into the catch block,
\* which emits the 'error' event and answers 500.
ChatNotFoundThrows(chatId, message, fileIds) ==
    /\ pc \in {"idle", "done"}
    /\ nreq < MaxRequests
    /\ ~(chatId \in DOMAIN store /\ store[chatId].userId = Caller)
    /\ nreq' = nreq + 1
    /\ frame' = [NoFrame EXCEPT !.chatId = chatId, !.message = message,
                                !.fileIds = fileIds]
    /\ events' = Emit(<<>>, ErrorEvent(chatId, "Chat not found"))
    /\ faults' = {}
    /\ summaryInput' = <<>>
    /\ response' = [status |-> 500, message |-> "Gemini API failed",
                    error |-> "Chat not found"]
    /\ pc' = "done"
    /\ UNCHANGED <<store, embeddingCache, io, devMode, calls, delivered>>

\* Lines 16-24: the conversation is absent or belongs to another user.
ChatNotFound(chatId, message, fileIds) ==
    /\ pc \in {"idle", "done"}
    /\ nreq < MaxRequests
    /\ ~(chatId \in DOMAIN store /\ store[chatId].userId = Caller)
    /\ nreq' = nreq + 1
    /\ frame' = [NoFrame EXCEPT !.chatId = chatId, !.message = message,
                                !.fileIds = fileIds]
    /\ events' = <<>>
    /\ faults' = {}
    /\ summaryInput' = <<>>
    /\ response' = [status |-> 404, message |-> "Chat not found"]
    /\ pc' = "done"
    /\ UNCHANGED <<store, embeddingCache, io, devMode, calls, delivered>>

\* Lines 16-38: the conversation is found and the file references resolved.
Receive(chatId, message, fileIds) ==
    /\ pc \in {"idle", "done"}
    /\ nreq < MaxRequests
    /\ chatId \in DOMAIN store /\ store[chatId].userId = Caller
    /\ nreq' = nreq + 1
    /\ frame' = [NoFrame EXCEPT
                    !.chatId = chatId, !.message = message,
                    !.fileIds = fileIds, !.chat = store[chatId],
                    !.before = store[chatId],
                    !.fileReferences =
                        IF fileIds # {}
                        THEN [k \in 1..Len(OwnedFiles(fileIds, Caller)) |->
                                 FileRef(OwnedFiles(fileIds, Caller)[k])]
                        ELSE <<>>]
    /\ events' = <<>>
    /\ faults' = {}
    /\ summaryInput' = <<>>
    /\ response' = NoResponse
    /\ pc' = "embedUser"
    /\ UNCHANGED <<store, embeddingCache, io, devMode, calls, delivered>>

\* Lines 40-54: embed the user message, append it, save.
EmbedUserMessage ==
    /\ pc = "embedUser"
    /\ \E e \in generateEmbedding(frame.message, embeddingCache, devMode) :
        /\ embeddingCache' = e.cache
        /\ IF e.ok
           THEN LET chat == [frame.chat EXCEPT !.messages =
                                Append(@, UserMessage(frame.message,
                                                      e.embedding,
                                                      frame.fileReferences))]
                IN  /\ frame' = [frame EXCEPT
                                    !.chat = chat,
                                    !.isFirstMessage = (Len(chat.messages) = 1)]
                    /\ store' = Save(chat)
                    /\ pc' = "started"
                    /\ UNCHANGED <<events, response, faults>>
           ELSE /\ Catch(EmbeddingFailure, "embedUser")
                /\ UNCHANGED frame
    /\ UNCHANGED <<io, devMode, calls, nreq, delivered, summaryInput>>

\* Mutant of EmitStarted: the request goes from 'processing started'
\* straight to the generation call.
EmitStartedThenGenerate ==
    /\ pc = "started"
    /\ events' = Emit(events, Started(frame.chatId))
    /\ pc' = "generate"
    /\ UNCHANGED <<store, embeddingCache, io, devMode, calls, nreq, delivered, frame, response,
                   faults, summaryInput>>

\* Lines 56-63: 'processing started', then the summarization trigger.
EmitStarted ==
    /\ pc = "started"
    /\ events' = Emit(events, Started(frame.chatId))
    /\ pc' = IF shouldSummarize(Len(frame.chat.messages))
             THEN "summarize" ELSE "fileContext"
    /\ UNCHANGED <<store, embeddingCache, io, devMode, calls, nreq, delivered, frame, response,
                   faults, summaryInput>>

\* Mutant of MessagesForSummary: the window is the last 10 messages, the
\* newest included.
LastTenMessages(chat) == Slice(chat.messages, 0 - 10, Len(chat.messages))

\* chat.messages.slice(-11, -1)
MessagesForSummary(chat) == Slice(chat.messages, 0 - SummaryWindowStart, 0 - 1)
\* messageRange: { start: length - 11, end: length - 1 }
MessageRange(chat) ==
    [start |-> Len(chat.messages) - SummaryWindowStart,
     end |-> Len(chat.messages) - 1]

\* Lines 64-81: summarize the window, append the Summary, save.
Summarize ==
    /\ pc = "summarize"
    /\ LET messagesForSummary == MessagesForSummary(frame.chat)
       IN  \E s \in generateSummary(messagesForSummary, embeddingCache, devMode) :
            LET chat == [frame.chat EXCEPT !.summaries =
                            Append(@, [text |-> s.text,
                                       embedding |-> s.embedding,
                                       messageRange |->
                                         MessageRange(frame.chat)])]
            IN  /\ summaryInput' = messagesForSummary
                /\ embeddingCache' = s.cache
                /\ frame' = [frame EXCEPT !.chat = chat]
                /\ store' = Save(chat)
                /\ faults' = IF s.fault = "none" THEN faults
                             ELSE faults \cup {"summary-" \o s.fault}
    /\ pc' = "fileContext"
    /\ UNCHANGED <<io, devMode, calls, nreq, delivered, events, response>>

\* Lines 83-109: file context.
GatherFileContext ==
    /\ pc = "fileContext"
    /\ \E ctx \in FileContext(frame.message, frame.fileReferences,
                            embeddingCache, devMode) :
        /\ frame' = [frame EXCEPT !.fileContext = ctx.text]
        /\ embeddingCache' = ctx.cache
        /\ faults' = IF ctx.failed THEN faults \cup {"retrieval"} ELSE faults
    /\ pc' = "messageContext"
    /\ UNCHANGED <<store, io, devMode, calls, nreq, delivered, events, response, summaryInput>>

\* Lines 111-112: conversation context.
GatherMessageContext ==
    /\ pc = "messageContext"
    /\ \E ctx \in getRelevantMessages(frame.chat, frame.message,
                                    embeddingCache, devMode) :
        /\ frame' = [frame EXCEPT !.relevantMessageContext = ctx.text]
        /\ embeddingCache' = ctx.cache
        /\ faults' = IF ctx.failed THEN faults \cup {"retrieval"} ELSE faults
    /\ pc' = "generate"
    /\ UNCHANGED <<store, io, devMode, calls, nreq, delivered, events, response, summaryInput>>

\* Lines 114-168: chatSession.sendMessageStream(promptWithContext) returns.
StartStream ==
    /\ pc = "generate"
    /\ frame' = [frame EXCEPT !.aiReply = <<>>, !.stream = <<>>]
    /\ pc' = "streaming"
    /\ UNCHANGED <<store, embeddingCache, io, devMode, calls, nreq, delivered, events, response,
                   faults, summaryInput>>

\* Line 166: chatSession.sendMessageStream(promptWithContext) raises.
StartStreamFails ==
    /\ pc = "generate"
    /\ Catch(GenerationFailure, "stream")
    /\ UNCHANGED <<embeddingCache, io, devMode, calls, nreq, delivered, frame,
                   summaryInput>>

\* Mutant of StreamChunk: the fragment is put in front of the reply.
StreamChunkPrepends(chunkText) ==
    /\ pc = "streaming"
    /\ delivered < MaxFrags
    /\ delivered' = delivered + 1
    /\ frame' = [frame EXCEPT
                    !.stream = Append(@, chunkText),
                    !.aiReply = IF chunkText # <<>> THEN chunkText \o @ ELSE @]
    /\ events' = IF chunkText # <<>>
                 THEN Emit(events, MessageChunk(frame.chatId, chunkText))
                 ELSE events
    /\ UNCHANGED <<store, embeddingCache, io, devMode, calls, pc, nreq, response,
                   faults, summaryInput>>

\* Lines 171-183: one element of result.stream arrives.
StreamChunk(chunkText) ==
    /\ pc = "streaming"
    /\ delivered < MaxFrags
    /\ delivered' = delivered + 1
    /\ frame' = [frame EXCEPT
                    !.stream = Append(@, chunkText),
                    !.aiReply = IF chunkText # <<>> THEN @ \o chunkText ELSE @]
    /\ events' = IF chunkText # <<>>
                 THEN Emit(events, MessageChunk(frame.chatId, chunkText))
                 ELSE events
    /\ UNCHANGED <<store, embeddingCache, io, devMode, calls, pc, nreq, response,
                   faults, summaryInput>>

\* Line 171: result.stream raises.
StreamFails ==
    /\ pc = "streaming"
    /\ Catch(GenerationFailure, "stream")
    /\ UNCHANGED <<embeddingCache, io, devMode, calls, nreq, delivered, frame,
                   summaryInput>>

\* Line 171: result.stream is exhausted.
StreamEnds ==
    /\ pc = "streaming"
    /\ pc' = "embedReply"
    /\ UNCHANGED <<store, embeddingCache, io, devMode, calls, nreq, delivered, frame, events,
                   response, faults, summaryInput>>

\* Lines 185-193: embed the reply and append the AI message.
EmbedReply ==
    /\ pc = "embedReply"
    /\ \E e \in generateEmbedding(frame.aiReply, embeddingCache, devMode) :
        /\ embeddingCache' = e.cache
        /\ IF e.ok
           THEN /\ frame' = [frame EXCEPT !.chat.messages =
                                Append(@, AiMessage(frame.aiReply, e.embedding))]
                /\ UNCHANGED faults
                /\ pc' = IF frame.isFirstMessage THEN "title" ELSE "save"
                /\ UNCHANGED <<store, events, response>>
           ELSE /\ Catch(EmbeddingFailure, "embedReply")
                /\ UNCHANGED frame
    /\ UNCHANGED <<io, devMode, calls, nreq, delivered, summaryInput>>

\* Lines 196-203: model.generateContent(titlePrompt) returns.
GenerateTitle(suggestedTitle) ==
    /\ pc = "title"
    /\ frame' = [frame EXCEPT !.chat.title = TruncateTitle(suggestedTitle)]
    /\ pc' = "save"
    /\ UNCHANGED <<store, embeddingCache, io, devMode, calls, nreq, delivered, events, response,
                   faults, summaryInput>>

\* Lines 204-210: model.generateContent(titlePrompt) raises.
GenerateTitleFails ==
    /\ pc = "title"
    /\ frame' = [frame EXCEPT !.chat.title = FallbackTitle(frame.message)]
    /\ faults' = faults \cup {"title"}
    /\ pc' = "save"
    /\ UNCHANGED <<store, embeddingCache, io, devMode, calls, nreq, delivered, events, response,
                   summaryInput>>

\* Lines 213-230: save, 'processing completed', the success response.
Complete ==
    /\ pc = "save"
    /\ store' = Save(frame.chat)
    /\ events' = Emit(events, Completed(frame.chatId, frame.chat.title))
    /\ response' = [status |-> 200, success |-> TRUE,
                    response |-> frame.aiReply, title |-> frame.chat.title]
    /\ pc' = "done"
    /\ UNCHANGED <<embeddingCache, io, devMode, calls, nreq, delivered, frame, faults,
                   summaryInput>>

Next ==
    \/ \E chatId \in ChatIds, message \in Messages, fileIds \in FileIdSets :
          \/ ChatNotFound(chatId, message, fileIds)
          \/ Receive(chatId, message, fileIds)
    \/ EmbedUserMessage
    \/ EmitStarted
    \/ Summarize
    \/ GatherFileContext
    \/ GatherMessageContext
    \/ StartStream
    \/ StartStreamFails
    \/ \E chunkText \in Frags : StreamChunk(chunkText)
    \/ StreamFails
    \/ StreamEnds
    \/ EmbedReply
    \/ \E suggestedTitle \in Titles : GenerateTitle(suggestedTitle)
    \/ GenerateTitleFails
    \/ Complete

Spec == Init /\ [][Next]_vars

\* The steps of the request in flight other than the two retrieval steps.
RequestStep ==
    \/ EmbedUserMessage
    \/ EmitStarted
    \/ Summarize
    \/ StartStream
    \/ StartStreamFails
    \/ \E chunkText \in Frags : StreamChunk(chunkText)
    \/ StreamFails
    \/ StreamEnds
    \/ EmbedReply
    \/ \E suggestedTitle \in Titles : GenerateTitle(suggestedTitle)
    \/ GenerateTitleFails
    \/ Complete
\* A retrieval step can be taken: the retrieval it awaits has an outcome.
RetrievalReturns ==
    \/ /\ pc = "fileContext"
       /\ FileContext(frame.message, frame.fileReferences,
                      embeddingCache, devMode) # {}
    \/ /\ pc = "messageContext"
       /\ getRelevantMessages(frame.chat, frame.message,
                              embeddingCache, devMode) # {}

\* ------------------------------------------- utility functions on their own
\* The utility functions are also exercised as a caller outside sendMessage
\* would: each specification below draws a function's arguments from
\* bounded sets and applies it, while no sendMessage request runs.
sendMessageVars ==
    <<store, io, pc, nreq, delivered, frame, events, response, faults,
      summaryInput>>
NoRequest ==
    /\ store = [id \in {"c1", "c2"} |->
                  IF id = "c1" THEN NewChat(Caller) ELSE OtherChat]
    /\ io = TRUE
    /\ pc = "idle"
    /\ nreq = 0
    /\ delivered = 0
    /\ frame = NoFrame
    /\ events = <<>>
    /\ response = NoResponse
    /\ faults = {}
    /\ summaryInput = <<>>

\* Sequences over S of length at most n.
SeqsUpTo(S, n) == UNION {[1..k -> S] : k \in 0..n}

\* Longest candidate sequence handed to findRelevantChunks.
MaxCandidates == 3
\* Candidates: two of equal score, one of lower score (orthogonal embedding,
\* longer text), one without embedding.
Candidates ==
    { [text |-> <<"a">>, embedding |-> <<1, 0>>],
      [text |-> <<"b">>, embedding |-> <<1, 0>>],
      [text |-> <<"c", "c">>, embedding |-> <<0, 1>>],
      [text |-> <<"d">>, embedding |-> <<>>] }

\* The cache is empty or holds the vector of an earlier call on the query.
RetrievalCaches ==
    {<<>>} \cup
    {<<[key |-> Substring(m, CacheKeyLen), value |-> v]>> :
        m \in Messages, v \in Vectors}
RetrievalInit ==
    /\ NoRequest
    /\ embeddingCache \in RetrievalCaches
    /\ devMode \in BOOLEAN
    /\ calls = NoCall

\* One call findRelevantChunks(query, embeddedChunks, count) and its return.
FindRelevantChunks(query, embeddedChunks, count) ==
    /\ calls = NoCall
    /\ \E r \in findRelevantChunks(query, embeddedChunks, count,
                                   embeddingCache, devMode) :
          /\ calls' = [op |-> "findRelevantChunks", query |-> query,
                       embeddedChunks |-> embeddedChunks, count |-> count,
                       result |-> r.result, failed |-> r.failed]
          /\ embeddingCache' = r.cache
    /\ UNCHANGED <<devMode, sendMessageVars>>

\* Conversations as getRelevantMessages meets them at line 112: the user
\* message of the request is the last message.
AfterAppend(chat) ==
    [chat EXCEPT !.messages = Append(@, UserMessage(<<"h", "i">>, <<1, 0>>, <<>>))]
\* 19 messages of sendImageMessage, then a sendMessage request that has
\* appended its message and the Summary of the first window.
SummarizedChat ==
    [AfterAppend(PriorChat(ImageExchanges(9) \o <<ImageUser(1)>>, DefaultTitle))
        EXCEPT !.summaries = <<[text |-> <<"s">>, embedding |-> <<1, 0>>,
                                 messageRange |-> [start |-> 9, end |-> 19]]>>]
RetrievalChats == {AfterAppend(c) : c \in InitChats} \cup {SummarizedChat}

\* One call getRelevantMessages(chat, query) and its return.
GetRelevantMessages(chat, query) ==
    /\ calls = NoCall
    /\ \E r \in getRelevantMessages(chat, query, embeddingCache, devMode) :
          /\ calls' = [op |-> "getRelevantMessages", query |-> query,
                       chat |-> chat, result |-> r.text, failed |-> r.failed]
          /\ embeddingCache' = r.cache
    /\ UNCHANGED <<devMode, sendMessageVars>>

RetrievalNext ==
    \/ \E query \in Messages, count \in 0..MaxCandidates,
          embeddedChunks \in SeqsUpTo(Candidates, MaxCandidates) :
           FindRelevantChunks(query, embeddedChunks, count)
    \/ \E query \in Messages, chat \in RetrievalChats :
           GetRelevantMessages(chat, query)

RetrievalSpec == RetrievalInit /\ [][RetrievalNext]_vars

\* ----------------------------------------- generateEmbedding, step by step
\* Concurrent requests call generateEmbedding on the shared cache.  A call
\* runs without interruption up to its await and again from the resolution
\* of the await to its return (lines 15-21 and 27-36); an invocation of the
\* embedding capability is pending in between.
Callers == {"r1", "r2"}
\* Calls each caller issues in one behaviour.
MaxCalls == 2
KeyLetters == <<"a", "b", "c", "d", "e", "f">>
\* A text of exactly the key length, all of one letter.
KeyText(k) == [i \in 1..CacheKeyLen |-> KeyLetters[k]]
\* One key more than the cache holds, and a longer text that shares its
\* key with the first one.
CacheTexts ==
    {KeyText(k) : k \in 1..(MaxCacheSize + 1)} \cup {KeyText(1) \o <<"a">>}
\* result.embedding.values
EmbeddingValues == {<<1, 0>>, <<0, 1>>}

\* Mutant of CacheKey: the whole text is the key.
WholeTextKey(text) == text
\* const cacheKey = text.substring(0, 100)
CacheKey(text) == Substring(text, CacheKeyLen)

IdleCall ==
    [pc |-> "idle", text |-> <<>>, attempts |-> 0, embedding |-> <<>>,
     exhausted |-> FALSE, n |-> 0]

CacheInit ==
    /\ NoRequest
    /\ embeddingCache = <<>>
    /\ devMode \in BOOLEAN
    /\ calls = [c \in Callers |-> IdleCall]

\* Lines 12-25: the key is looked up; a hit returns the cached vector, a
\* miss issues the first invocation of the embedding capability.
CallGenerateEmbedding(c, text) ==
    /\ calls[c].pc \in {"idle", "returned", "raised"}
    /\ calls[c].n < MaxCalls
    /\ calls' = [calls EXCEPT ![c] =
                    IF CacheHas(embeddingCache, CacheKey(text))
                    THEN [pc |-> "returned", text |-> text, attempts |-> 0,
                          embedding |-> CacheGet(embeddingCache, CacheKey(text)),
                          exhausted |-> FALSE, n |-> @.n + 1]
                    ELSE [pc |-> "pending", text |-> text, attempts |-> 1,
                          embedding |-> <<>>, exhausted |-> FALSE,
                          n |-> @.n + 1]]
    /\ UNCHANGED <<embeddingCache, devMode, sendMessageVars>>

\* Lines 24-36: the pending invocation resolves with a vector; the vector
\* is stored, the oldest entry evicted if the cache is over its size, the
\* vector returned.
InvocationSucceeds(c, v) ==
    /\ calls[c].pc = "pending"
    /\ embeddingCache' =
          CacheEvict(CacheSet(embeddingCache, CacheKey(calls[c].text), v))
    /\ calls' = [calls EXCEPT ![c].pc = "returned", ![c].embedding = v]
    /\ UNCHANGED <<devMode, sendMessageVars>>

\* The pending invocation rejects and withRetry issues the next one.
InvocationRetried(c) ==
    /\ calls[c].pc = "pending"
    /\ calls[c].attempts + 1 \in withRetryAttempts(maxRetries)
    /\ calls' = [calls EXCEPT ![c].attempts = @ + 1]
    /\ UNCHANGED <<embeddingCache, devMode, sendMessageVars>>

\* Mutant of InvocationsExhausted: the catch block also stores what it
\* returns.
ExhaustedStoresResult(c) ==
    /\ calls[c].pc = "pending"
    /\ calls[c].attempts + 1 \notin withRetryAttempts(maxRetries)
    /\ \E v \in EmbeddingValues :
          /\ calls' = [calls EXCEPT ![c].pc = IF devMode THEN "returned"
                                              ELSE "raised",
                                    ![c].embedding = IF devMode THEN v ELSE <<>>,
                                    ![c].exhausted = TRUE]
          /\ embeddingCache' =
                CacheEvict(CacheSet(embeddingCache, CacheKey(calls[c].text), v))
    /\ UNCHANGED <<devMode, sendMessageVars>>

\* Lines 37-47: the last invocation rejects and withRetry rejects; the
\* catch block returns a random vector in development and raises otherwise.
InvocationsExhausted(c) ==
    /\ calls[c].pc = "pending"
    /\ calls[c].attempts + 1 \notin withRetryAttempts(maxRetries)
    /\ IF devMode
       THEN \E v \in EmbeddingValues :
               calls' = [calls EXCEPT ![c].pc = "returned",
                                      ![c].embedding = v,
                                      ![c].exhausted = TRUE]
       ELSE calls' = [calls EXCEPT ![c].pc = "raised",
                                   ![c].exhausted = TRUE]
    /\ UNCHANGED <<embeddingCache, devMode, sendMessageVars>>

CacheNext ==
    \/ \E c \in Callers, text \in CacheTexts : CallGenerateEmbedding(c, text)
    \/ \E c \in Callers, v \in EmbeddingValues : InvocationSucceeds(c, v)
    \/ \E c \in Callers : InvocationRetried(c)
    \/ \E c \in Callers : InvocationsExhausted(c)

CacheSpec == CacheInit /\ [][CacheNext]_vars

\* ------------------------------------------ generateChunkEmbeddings, upload
\* Longest chunk sequence handed to generateChunkEmbeddings.
MaxChunks == 3
\* Chunk texts; chunkText returns the empty text for an empty document.
UploadChunks == {<<>>, <<"p">>, <<"q">>}

\* Mutant of generateChunkEmbeddings: no try/catch around the embedding of
\* a chunk, the first failure is raised to the caller.
RECURSIVE generateChunkEmbeddingsUncaught(_, _, _)
generateChunkEmbeddingsUncaught(chunks, cache, dev) ==
    IF chunks = <<>>
    THEN {[embeddedChunks |-> <<>>, cache |-> cache, failed |-> <<>>,
           raised |-> FALSE]}
    ELSE UNION {
           IF ~e.ok
           THEN {[embeddedChunks |-> <<>>, cache |-> e.cache,
                  failed |-> <<TRUE>>, raised |-> TRUE]}
           ELSE {[embeddedChunks |->
                     <<[text |-> Head(chunks), embedding |-> e.embedding]>>
                        \o r.embeddedChunks,
                  cache |-> r.cache,
                  failed |-> <<FALSE>> \o r.failed,
                  raised |-> r.raised]
                 : r \in generateChunkEmbeddingsUncaught(Tail(chunks),
                                                         e.cache, dev)}
           : e \in generateEmbedding(Head(chunks), cache, dev)}

\* generateChunkEmbeddings(chunks): the outcomes of one call: the elements
\* pushed, the cache afterwards, for each chunk whether its embedding call
\* raised (failed), and whether the call itself raised.
RECURSIVE generateChunkEmbeddings(_, _, _)
generateChunkEmbeddings(chunks, cache, dev) ==
    IF chunks = <<>>
    THEN {[embeddedChunks |-> <<>>, cache |-> cache, failed |-> <<>>,
           raised |-> FALSE]}
    ELSE UNION {
           {[embeddedChunks |->
                <<[text |-> Head(chunks),
                   embedding |-> IF e.ok THEN e.embedding ELSE <<>>]>>
                   \o r.embeddedChunks,
             cache |-> r.cache,
             failed |-> <<~e.ok>> \o r.failed,
             raised |-> r.raised]
            : r \in generateChunkEmbeddings(Tail(chunks), e.cache, dev)}
           : e \in generateEmbedding(Head(chunks), cache, dev)}

UploadInit ==
    /\ NoRequest
    /\ embeddingCache = <<>>
    /\ devMode \in BOOLEAN
    /\ calls = NoCall

\* One call generateChunkEmbeddings(chunks) and its return.
GenerateChunkEmbeddings(chunks) ==
    /\ calls = NoCall
    /\ \E r \in generateChunkEmbeddings(chunks, embeddingCache, devMode) :
          /\ calls' = [op |-> "generateChunkEmbeddings", chunks |-> chunks,
                       embeddedChunks |-> r.embeddedChunks,
                       failed |-> r.failed, raised |-> r.raised]
          /\ embeddingCache' = r.cache
    /\ UNCHANGED <<devMode, sendMessageVars>>

\* uploadFile without a file: 400.
UploadWithoutFile ==
    /\ calls = NoCall
    /\ calls' = [op |-> "uploadFile", status |-> 400,
                 message |-> "No file uploaded"]
    /\ UNCHANGED <<embeddingCache, devMode, sendMessageVars>>

\* uploadFile whose processFile raises: 500.
UploadUnprocessed ==
    /\ calls = NoCall
    /\ calls' = [op |-> "uploadFile", status |-> 500,
                 message |-> "File upload failed"]
    /\ UNCHANGED <<embeddingCache, devMode, sendMessageVars>>

\* uploadFile of a file that processFile turned into chunks: the chunks
\* are embedded, the File document created, 201 answered; an exception of
\* generateChunkEmbeddings is answered 500 and creates no document.
UploadFile(chunks) ==
    /\ calls = NoCall
    /\ \E r \in generateChunkEmbeddings(chunks, embeddingCache, devMode) :
          /\ calls' = IF r.raised
                      THEN [op |-> "uploadFile", status |-> 500,
                            message |-> "File upload failed",
                            chunks |-> chunks, failed |-> r.failed]
                      ELSE [op |-> "uploadFile", status |-> 201,
                            chunks |-> chunks, failed |-> r.failed,
                            file |-> [userId |-> Caller,
                                      chunks |-> r.embeddedChunks]]
          /\ embeddingCache' = r.cache
    /\ UNCHANGED <<devMode, sendMessageVars>>

UploadNext ==
    \/ \E chunks \in SeqsUpTo(UploadChunks, MaxChunks) :
          GenerateChunkEmbeddings(chunks)
    \/ UploadWithoutFile
    \/ UploadUnprocessed
    \/ \E chunks \in SeqsUpTo(UploadChunks, MaxChunks) : UploadFile(chunks)

UploadSpec == UploadInit /\ [][UploadNext]_vars

\* ---------------------------------------------------------------- chunkText
\* chunkSize and overlap (1000 and 100 in the source), scaled.
ChunkSize == 4
Overlap == 1
\* Longest text handed to chunkText.
MaxTextLen == 7
\* [.!?] and \s of the sentence boundary.
Terminators == {".", "!", "?"}
Whitespace == {" ", "\n"}
TextChars == {"a", ".", "!", " ", "\n"}

\* text.split(/(?<=[.!?])\s+/) from position i on, current being the piece
\* read so far: a run of whitespace that follows a terminator separates
\* two pieces and belongs to neither.
RECURSIVE SplitFrom(_, _, _)
SplitFrom(text, i, current) ==
    IF i > Len(text)
    THEN <<current>>
    ELSE IF text[i] \in Whitespace /\ i > 1 /\ text[i - 1] \in Terminators
         THEN LET after == {j \in i..Len(text) : text[j] \notin Whitespace}
                  next == IF after = {} THEN Len(text) + 1
                          ELSE CHOOSE j \in after : \A k \in after : j <= k
              IN  <<current>> \o SplitFrom(text, next, <<>>)
         ELSE SplitFrom(text, i + 1, Append(current, text[i]))

SplitSentences(text) == SplitFrom(text, 1, <<>>)

\* Mutant of overlapText: the seed is taken from the front of the chunk.
overlapTextFromFront(currentChunk, overlap) ==
    SubSeq(currentChunk, 1,
           IF Len(currentChunk) < overlap THEN Len(currentChunk) ELSE overlap)

\* currentChunk.slice(-overlap); slice(-0) is the whole string.
overlapText(currentChunk, overlap) ==
    IF overlap = 0 \/ Len(currentChunk) <= overlap
    THEN currentChunk
    ELSE SubSeq(currentChunk, Len(currentChunk) - overlap + 1,
                Len(currentChunk))

\* The for loop of chunkText over the remaining sentences and the final
\* push of a non-empty currentChunk.
RECURSIVE chunkTextLoop(_, _, _, _, _)
chunkTextLoop(sentences, currentChunk, chunks, chunkSize, overlap) ==
    IF sentences = <<>>
    THEN IF currentChunk # <<>> THEN Append(chunks, currentChunk) ELSE chunks
    ELSE LET sentence == Head(sentences)
         IN  IF Len(currentChunk) + Len(sentence) > chunkSize
             THEN chunkTextLoop(Tail(sentences),
                                overlapText(currentChunk, overlap) \o sentence,
                                Append(chunks, currentChunk),
                                chunkSize, overlap)
             ELSE chunkTextLoop(Tail(sentences),
                                currentChunk
                                   \o (IF currentChunk # <<>> THEN <<" ">>
                                       ELSE <<>>)
                                   \o sentence,
                                chunks, chunkSize, overlap)

chunkText(text, chunkSize, overlap) ==
    IF Len(text) <= chunkSize
    THEN <<text>>
    ELSE chunkTextLoop(SplitSentences(text), <<>>, <<>>, chunkSize, overlap)

ChunkInit ==
    /\ NoRequest
    /\ embeddingCache = <<>>
    /\ devMode = FALSE
    /\ calls = NoCall

\* One call chunkText(text) with the default chunkSize and overlap, as
\* processFile makes it.
ChunkText(text) ==
    /\ calls = NoCall
    /\ calls' = [op |-> "chunkText", text |-> text,
                 chunks |-> chunkText(text, ChunkSize, Overlap)]
    /\ UNCHANGED <<embeddingCache, devMode, sendMessageVars>>

ChunkNext ==
    /\ calls = NoCall
    /\ \E text \in SeqsUpTo(TextChars, MaxTextLen) : ChunkText(text)

ChunkSpec == ChunkInit /\ [][ChunkNext]_vars

\* ------------------------------------------- sendImageMessage, overlapping
\* Two executions of sendImageMessage, each a sequence of steps that run
\* from one await to the next (Node runs the code between two awaits
\* without interruption).  calls[c] is the activation of caller c: its
\* position, req.params.id, req.file, req.body.message, the chat document
\* it loaded, aiReply, the events it emitted, its response, the attempts
\* to unlink req.file.path and whether the file was removed, whether it
\* assigned chat.title, and the
\* requests c has issued.
\* Requests each caller issues in one behaviour.
MaxImageRequests == 1
\* message || "Image query", the fallback title, req.file.originalname
ImageQuery == <<"I", "q">>
ImageAnalysis ==
    <<"I", "m", "a", "g", "e", " ", "A", "n", "a", "l", "y", "s", "i", "s">>
ImageFileName == <<"p">>
IdleImage ==
    [pc |-> "idle", chatId |-> "none", file |-> FALSE, message |-> <<>>,
     chat |-> NewChat(Caller), aiReply |-> <<>>, events |-> <<>>,
     response |-> NoResponse, unlinks |-> 0, removed |-> FALSE,
     titled |-> FALSE, n |-> 0]

ImageInit ==
    /\ NoRequest
    /\ embeddingCache = <<>>
    /\ devMode = FALSE
    /\ calls = [c \in Callers |-> IdleImage]

\* Lines 447-471: 'error' event, unlink of req.file.path inside its own
\* try/catch (the activation has a file whenever it reaches the try body
\* past line 324), the 500 response.
ImageCatch(c, error, unlinkOk) ==
    [calls[c] EXCEPT
        !.events = Emit(@, ErrorEvent(calls[c].chatId, error)),
        !.unlinks = IF calls[c].file THEN @ + 1 ELSE @,
        !.removed = calls[c].file /\ unlinkOk,
        !.response = [status |-> 500, message |-> "Gemini Vision API failed",
                      error |-> error],
        !.pc = "done"]

\* Lines 315-326: no file is answered 400; otherwise Chat.findOne is issued.
ImageReceive(c, chatId, file, message) ==
    /\ calls[c].pc \in {"idle", "done"}
    /\ calls[c].n < MaxImageRequests
    /\ calls' = [calls EXCEPT ![c] =
          IF ~file
          THEN [IdleImage EXCEPT
                   !.pc = "done", !.chatId = chatId, !.message = message,
                   !.response = [status |-> 400,
                                 message |-> "No image uploaded"],
                   !.n = calls[c].n + 1]
          ELSE [IdleImage EXCEPT
                   !.pc = "lookup", !.chatId = chatId, !.file = TRUE,
                   !.message = message, !.n = calls[c].n + 1]]
    /\ UNCHANGED <<embeddingCache, devMode, sendMessageVars>>

\* Line 327: the conversation is absent or not the caller's: 404.
ImageChatNotFound(c) ==
    /\ calls[c].pc = "lookup"
    /\ ~(calls[c].chatId \in DOMAIN store
            /\ store[calls[c].chatId].userId = Caller)
    /\ calls' = [calls EXCEPT ![c] =
          [@ EXCEPT !.pc = "done",
                    !.response = [status |-> 404,
                                  message |-> "Chat not found"]]]
    /\ UNCHANGED <<embeddingCache, devMode, sendMessageVars>>

\* Lines 326-347: the conversation is found, the image read, 'processing
\* started' emitted, the user message pushed and chat.save() issued; a
\* failing readFileSync goes to the catch block.
ImageLookup(c, readOk, unlinkOk) ==
    /\ calls[c].pc = "lookup"
    /\ calls[c].chatId \in DOMAIN store
    /\ store[calls[c].chatId].userId = Caller
    /\ calls' = [calls EXCEPT ![c] =
          IF ~readOk
          THEN ImageCatch(c, "read", unlinkOk)
          ELSE [@ EXCEPT
                  !.pc = "saveUser",
                  !.events = Emit(@, Started(calls[c].chatId)),
                  !.chat = [store[calls[c].chatId] EXCEPT !.messages =
                      Append(@, UserMessage(
                          IF calls[c].message = <<>> THEN ImageQuery
                          ELSE calls[c].message,
                          <<>>, <<[fileName |-> ImageFileName]>>))]]]
    /\ UNCHANGED <<embeddingCache, devMode, sendMessageVars>>

\* Line 347 returns: the pushed user message is written to the stored
\* document (chat.save() writes the paths this activation modified), and
\* generateContentStream is called.
ImageUserSaved(c) ==
    /\ calls[c].pc = "saveUser"
    /\ store' = [store EXCEPT ![calls[c].chatId].messages =
                    Append(@, Last(calls[c].chat.messages))]
    /\ calls' = [calls EXCEPT ![c].pc = "generate"]
    /\ UNCHANGED <<embeddingCache, io, devMode, pc, nreq, delivered, frame,
                   events, response, faults, summaryInput>>

\* Lines 347, 421: chat.save() raises.
ImageSaveFails(c, unlinkOk) ==
    /\ calls[c].pc \in {"saveUser", "saveReply"}
    /\ calls' = [calls EXCEPT ![c] = ImageCatch(c, "save", unlinkOk)]
    /\ UNCHANGED <<embeddingCache, devMode, sendMessageVars>>

\* Line 374 or the stream raises.
ImageStreamFails(c, unlinkOk) ==
    /\ calls[c].pc = "generate"
    /\ calls' = [calls EXCEPT ![c] = ImageCatch(c, "stream", unlinkOk)]
    /\ UNCHANGED <<embeddingCache, devMode, sendMessageVars>>

\* The 'message-chunk' events of the non-empty elements of a stream.
RECURSIVE ImageChunkEvents(_, _)
ImageChunkEvents(chatId, stream) ==
    IF stream = <<>> THEN <<>>
    ELSE (IF Head(stream) # <<>> /\ io
          THEN <<MessageChunk(chatId, Head(stream))>> ELSE <<>>)
         \o ImageChunkEvents(chatId, Tail(stream))

\* Lines 374-401: the stream is read to its end, the AI message pushed and
\* the first exchange detected by chat.messages.length <= 2.
ImageStream(c, stream) ==
    /\ calls[c].pc = "generate"
    /\ calls' = [calls EXCEPT ![c] =
          [@ EXCEPT
              !.aiReply = Flatten(stream),
              !.events = @ \o ImageChunkEvents(calls[c].chatId, stream),
              !.chat = [@ EXCEPT !.messages =
                           Append(@, [sender |-> "ai",
                                      content |-> Flatten(stream),
                                      embedding |-> <<>>,
                                      fileRefs |-> <<>>])],
              !.pc = IF Len(calls[c].chat.messages) + 1 <= 2
                     THEN "title" ELSE "saveReply"]]
    /\ UNCHANGED <<embeddingCache, devMode, sendMessageVars>>

\* Lines 406-414: the title call returns.
ImageTitle(c, suggestedTitle) ==
    /\ calls[c].pc = "title"
    /\ calls' = [calls EXCEPT ![c] =
          [@ EXCEPT !.chat = [@ EXCEPT !.title = TruncateTitle(suggestedTitle)],
                    !.titled = TRUE, !.pc = "saveReply"]]
    /\ UNCHANGED <<embeddingCache, devMode, sendMessageVars>>

\* Lines 415-418: the title call raises.
ImageTitleFails(c) ==
    /\ calls[c].pc = "title"
    /\ calls' = [calls EXCEPT ![c] =
          [@ EXCEPT !.chat = [@ EXCEPT !.title = ImageAnalysis],
                    !.titled = TRUE, !.pc = "saveReply"]]
    /\ UNCHANGED <<embeddingCache, devMode, sendMessageVars>>

\* Lines 421-445: chat.save() returns (the AI message and, when assigned,
\* the title are written), the file is unlinked inside its own try/catch,
\* 'processing completed' emitted and the reply sent.
ImageComplete(c, unlinkOk) ==
    /\ calls[c].pc = "saveReply"
    /\ store' = [store EXCEPT ![calls[c].chatId] =
          [@ EXCEPT !.messages = Append(@, Last(calls[c].chat.messages)),
                    !.title = IF calls[c].titled THEN calls[c].chat.title
                              ELSE @]]
    /\ calls' = [calls EXCEPT ![c] =
          [@ EXCEPT
              !.unlinks = @ + 1,
              !.removed = unlinkOk,
              !.events = Emit(@, Completed(calls[c].chatId,
                                           calls[c].chat.title)),
              !.response = [status |-> 200, success |-> TRUE,
                            message |-> "Image processed",
                            response |-> calls[c].aiReply,
                            title |-> calls[c].chat.title],
              !.pc = "done"]]
    /\ UNCHANGED <<embeddingCache, io, devMode, pc, nreq, delivered, frame,
                   events, response, faults, summaryInput>>

ImageNext ==
    \E c \in Callers :
       \/ \E chatId \in ChatIds, file \in BOOLEAN,
             message \in Messages \cup {<<>>} :
                ImageReceive(c, chatId, file, message)
       \/ ImageChatNotFound(c)
       \/ \E readOk \in BOOLEAN, unlinkOk \in BOOLEAN :
             ImageLookup(c, readOk, unlinkOk)
       \/ ImageUserSaved(c)
       \/ \E unlinkOk \in BOOLEAN : ImageSaveFails(c, unlinkOk)
       \/ \E unlinkOk \in BOOLEAN : ImageStreamFails(c, unlinkOk)
       \/ \E stream \in SeqsUpTo(Frags, MaxFrags) : ImageStream(c, stream)
       \/ \E suggestedTitle \in Titles : ImageTitle(c, suggestedTitle)
       \/ ImageTitleFails(c)
       \/ \E unlinkOk \in BOOLEAN : ImageComplete(c, unlinkOk)

ImageSpec == ImageInit /\ [][ImageNext]_vars

\* ------------------------------------------------- cosineSimilarity alone
\* Arguments of a call: a missing argument (undefined, null) or an array.
CosineVectors ==
    {<<>>, <<0>>, <<2>>, <<0, 0>>, <<1, 0>>, <<0, 1>>, <<3, 4>>, <<0 - 3, 4>>,
     <<0 - 1, 0>>, <<2, 0, 0>>, <<0, 0, 0>>}
CosineArgs ==
    {[given |-> FALSE, vec |-> <<>>]}
       \cup {[given |-> TRUE, vec |-> v] : v \in CosineVectors}

\* Line 76: !vecA || !vecB, then the function on two arrays.
cosineSimilarityCall(a, b) ==
    IF ~a.given \/ ~b.given THEN [n |-> 0, d |-> 1]
    ELSE cosineSimilarity(a.vec, b.vec)

CosineInit ==
    /\ NoRequest
    /\ embeddingCache = <<>>
    /\ devMode = FALSE
    /\ calls = NoCall

\* One call cosineSimilarity(a, b) and its return.
CosineSimilarity(a, b) ==
    /\ calls = NoCall
    /\ calls' = [op |-> "cosineSimilarity", a |-> a, b |-> b,
                 result |-> cosineSimilarityCall(a, b)]
    /\ UNCHANGED <<embeddingCache, devMode, sendMessageVars>>

CosineNext == \E a \in CosineArgs, b \in CosineArgs : CosineSimilarity(a, b)

CosineSpec == CosineInit /\ [][CosineNext]_vars

\* ------------------------------------------------ the title blocks alone
\* Longest suggested title and longest user message.
MaxTitleLen == 52
MaxMessageLen == 32
\* The text of n characters whose characters cycle through the digits.
TitleText(n) == [i \in 1..n |-> Digits[((i - 1) % 9) + 1]]

TitleInit ==
    /\ NoRequest
    /\ embeddingCache = <<>>
    /\ devMode = FALSE
    /\ calls = NoCall

\* Lines 198-203 and 406-414: the title call returned suggestedTitle.
AssignTitle(op, message, suggestedTitle) ==
    /\ calls = NoCall
    /\ calls' = [op |-> op, message |-> message, generated |-> TRUE,
                 suggestedTitle |-> suggestedTitle,
                 title |-> TruncateTitle(suggestedTitle), raised |-> FALSE]
    /\ UNCHANGED <<embeddingCache, devMode, sendMessageVars>>

\* Lines 204-210: the title call of sendMessage raised; the catch block
\* assigns the fallback and the request goes on to chat.save().
AssignFallbackTitle(message) ==
    /\ calls = NoCall
    /\ calls' = [op |-> "sendMessage", message |-> message,
                 generated |-> FALSE, suggestedTitle |-> <<>>,
                 title |-> FallbackTitle(message), raised |-> FALSE]
    /\ UNCHANGED <<embeddingCache, devMode, sendMessageVars>>

\* Lines 415-418: the title call of sendImageMessage raised.
AssignImageFallback(message) ==
    /\ calls = NoCall
    /\ calls' = [op |-> "sendImageMessage", message |-> message,
                 generated |-> FALSE, suggestedTitle |-> <<>>,
                 title |-> ImageAnalysis, raised |-> FALSE]
    /\ UNCHANGED <<embeddingCache, devMode, sendMessageVars>>

TitleNext ==
    /\ calls = NoCall
    /\ \E message \in {TitleText(n) : n \in 0..MaxMessageLen} :
          \/ \E op \in {"sendMessage", "sendImageMessage"},
                suggestedTitle \in {TitleText(n) : n \in 0..MaxTitleLen} :
                   AssignTitle(op, message, suggestedTitle)
          \/ AssignFallbackTitle(message)
          \/ AssignImageFallback(message)

TitleSpec == TitleInit /\ [][TitleNext]_vars

\* ================================================================== claims
Stored == store[frame.chatId]
\* The request in flight has appended its user message.
UserAppended == Len(frame.chat.messages) > Len(frame.before.messages)
\* The request has ended with the success response / the failure response.
COMPLETED == pc = "done" /\ response.status = 200
FAILED == pc = "done" /\ response.status = 500
NOTFOUND == pc = "done" /\ response.status = 404
EventsOf(type) == SelectSeq(events, LAMBDA e : e.type = type)
HasCompletedEvent ==
    \E i \in 1..Len(events) :
        events[i].type = "processing" /\ events[i].status = "completed"
HasErrorEvent == \E i \in 1..Len(events) : events[i].type = "error"

\* C1: a request that fails after its user message was appended and saved
\* leaves the conversation holding the messages it held before, followed by
\* that user message and no AI message; and no step of any request removes,
\* reorders or alters a stored message (the sequence only grows at its end).
C1_Step ==
    /\ \A c \in DOMAIN store : IsPrefix(store[c].messages, store'[c].messages)
    /\ (pc' = "done" /\ response'.status = 500
            /\ Len(frame'.chat.messages) > Len(frame'.before.messages))
       => /\ Len(store'[frame'.chatId].messages)
                = Len(frame'.before.messages) + 1
          /\ IsPrefix(frame'.before.messages, store'[frame'.chatId].messages)
          /\ Last(store'[frame'.chatId].messages).sender = "user"
          /\ Last(store'[frame'.chatId].messages).content = frame'.message
C1_UserTurnKept == [][C1_Step]_vars
C1_Witness ==
    /\ FAILED /\ UserAppended
    /\ frame.before.messages # <<>>
    /\ Stored.messages = Append(frame.before.messages, Last(Stored.messages))

\* C2: the message-chunk events of a request are, in order, the non-empty
\* fragments received so far, each tagged with the conversation id; their
\* concatenation is the reply accumulated so far, and on completion it is
\* the content of the appended AI message and the reply in the response.
ChunkTexts ==
    [k \in 1..Len(EventsOf("message-chunk")) |->
        EventsOf("message-chunk")[k].chunk]
PcRank ==
    CASE pc = "idle" -> 0
      [] pc = "embedUser" -> 1
      [] pc = "started" -> 2
      [] pc = "summarize" -> 3
      [] pc = "fileContext" -> 4
      [] pc = "messageContext" -> 5
      [] pc = "generate" -> 6
      [] pc = "streaming" -> 7 + Len(frame.stream)
      [] pc = "embedReply" -> 8 + MaxFrags
      [] pc = "title" -> 9 + MaxFrags
      [] pc = "save" -> 10 + MaxFrags
      [] pc = "done" -> 11 + MaxFrags

\* C3: a request whose conversation is found ends (while it has not ended
\* a step of it can be taken, and every step brings it closer to its end),
\* and it ends in exactly one of COMPLETED ('processing completed' event and
\* success response) and FAILED ('error' event and failure response); a
\* request that is generating leaves that state only because the stream
\* finished or failed.
C3_ExactlyOne ==
    /\ (pc = "done" /\ response.status # 404) =>
          \/ /\ response.status = 200
             /\ HasCompletedEvent /\ ~HasErrorEvent
          \/ /\ response.status = 500
             /\ HasErrorEvent /\ ~HasCompletedEvent
    /\ pc \notin {"idle", "done"} =>
          (response = NoResponse /\ ~HasCompletedEvent /\ ~HasErrorEvent
             /\ (RetrievalReturns \/ ENABLED RequestStep))
C3_Step ==
    /\ nreq' = nreq => PcRank' > PcRank
    /\ (pc = "streaming" /\ pc' # "streaming") =>
          \/ pc' = "embedReply" /\ response' = NoResponse
          \/ pc' = "done" /\ response'.status = 500 /\ "stream" \in faults'
C4_OnlyLookupOrStream ==
    (pc = "done" /\ response.status \in {404, 500}) =>
        \/ response.status = 404
        \/ "stream" \in faults

\* C5: when the stream has finished and embedding the reply fails, the
\* request still completes: the AI message is appended with the reply and
\* an empty embedding, saved, 'processing completed' emitted, the reply
\* returned.
C5_ReplyEmbeddingBestEffort ==
    (pc = "done" /\ "embedReply" \in faults) =>
        /\ response.status = 200
        /\ response.response = frame.aiReply
        /\ HasCompletedEvent
        /\ Last(Stored.messages) = AiMessage(frame.aiReply, <<>>)

\* The step that answers a request whose conversation lookup failed.
LookupFails ==
    /\ nreq' # nreq
    /\ ~(frame'.chatId \in DOMAIN store /\ store[frame'.chatId].userId = Caller)

\* C6 as claimed: a failed conversation lookup (conversation absent or not
\* owned by the caller) is reported to the caller as an error response and
\* to the notification channel as an 'error' event, and changes no
\* conversation.
C6_Claimed_Step ==
    LookupFails =>
        /\ response'.status \in {404, 500}
        /\ HasErrorEvent'
        /\ store' = store
C6_LookupFailureNotified == [][C6_Claimed_Step]_vars

\* C6 as amended: a failed conversation lookup is reported to the caller
\* alone, as the 404 response "Chat not found"; the request ends without
\* emitting any event, and no conversation's messages, summaries or title
\* change.  A request is answered 404 only when the lookup failed.
C6_Amended_Step ==
    /\ LookupFails =>
          /\ pc' = "done"
          /\ response' = [status |-> 404, message |-> "Chat not found"]
          /\ events' = <<>>
          /\ store' = store
    /\ (nreq' # nreq /\ response'.status = 404) => LookupFails
C6_LookupFailureAnswered == [][C6_Amended_Step]_vars
C6_Witness == NOTFOUND /\ frame.chatId = "c2" /\ events = <<>>

\* The request in flight is past the summarization trigger of line 63.
PastTrigger ==
    /\ UserAppended
    /\ pc \in {"summarize", "fileContext", "messageContext", "generate",
               "streaming", "embedReply", "title", "save", "done"}
\* n: the message count right after the user message was appended.
CountAfterAppend == Len(frame.before.messages) + 1
SummariesAdded == Len(frame.chat.summaries) - Len(frame.before.summaries)

\* C7: the summarizer is run after the append iff the message count n then
\* satisfies n > 10 and n mod 10 = 0; otherwise the request appends no
\* Summary.
C7_TriggerIff ==
    LET n == CountAfterAppend
        fires == n > 10 /\ n % 10 = 0
    IN  /\ ~PastTrigger =>
              (SummariesAdded = 0 /\ summaryInput = <<>> /\ pc # "summarize")
        /\ (PastTrigger /\ pc = "summarize") => fires
        /\ (PastTrigger /\ pc # "summarize") =>
              /\ (summaryInput # <<>>) = fires
              /\ SummariesAdded = (IF fires THEN 1 ELSE 0)
              /\ Stored.summaries = frame.chat.summaries
C7_Witness ==
    /\ pc = "fileContext" /\ CountAfterAppend = 20 /\ SummariesAdded = 1

\* C8: when the trigger fires with n messages, the summarizer receives the
\* 10 messages at 0-indexed positions n-11 .. n-2 in their order, and one
\* Summary is appended with messageRange {start: n-11, end: n-1}.
C8_Window ==
    LET n == CountAfterAppend
    IN  (PastTrigger /\ pc # "summarize" /\ summaryInput # <<>>) =>
            /\ summaryInput = [i \in 1..10 |-> frame.chat.messages[n - 11 + i]]
            /\ SummariesAdded = 1
            /\ Last(Stored.summaries).messageRange
                  = [start |-> n - 11, end |-> n - 1]
C8_Witness ==
    /\ pc = "fileContext" /\ CountAfterAppend = 20
    /\ summaryInput = SubSeq(Stored.messages, 10, 19)
    /\ Last(Stored.summaries).messageRange = [start |-> 9, end |-> 19]

\* Every request on the conversation has completed: its messages are user
\* and AI messages in turn.
AllCompleted(messages) ==
    /\ Len(messages) % 2 = 0
    /\ \A i \in 1..Len(messages) :
          messages[i].sender = (IF i % 2 = 1 THEN "user" ELSE "ai")

\* C9: in a conversation all of whose requests completed, a Summary has
\* been appended by the time the conversation holds 20 messages.
C9_PeriodicSummary ==
    (pc \in {"idle", "done"} /\ AllCompleted(store["c1"].messages)
        /\ Len(store["c1"].messages) >= 20)
    => Len(store["c1"].summaries) >= 1

\* C10: generateSummary does not raise: when generation fails the Summary
\* appended is the static fallback text with an empty embedding, when only
\* the embedding of the generated text fails it is the generated text with
\* an empty embedding; the request goes on to context gathering and, past
\* it, to generation.
SummaryFaults == {"summary-generation", "summary-embedding"}
C10_SummaryDegrades ==
    (PastTrigger /\ pc # "summarize" /\ faults \cap SummaryFaults # {}) =>
        /\ SummariesAdded = 1
        /\ Last(Stored.summaries).embedding = <<>>
        /\ "summary-generation" \in faults =>
              Last(Stored.summaries).text
                  = <<"Previous conversation covered various topics.">>
        /\ "summary-embedding" \in faults =>
              Last(Stored.summaries).text \in SummaryTexts
        /\ pc = "done" => (response.status = 200 \/ "stream" \in faults
                              \/ "embedReply" \in faults)
C10_Witness ==
    /\ pc = "generate" /\ "summary-embedding" \in faults
    /\ Last(Stored.summaries).text \in SummaryTexts

\* The chunk without the score that findRelevantChunks attached to it.
WithoutScore(x) == [f \in DOMAIN x \ {"score"} |-> x[f]]
SameScore(x, y) == ~ScoreLess(x, y) /\ ~ScoreLess(y, x)

\* C11: findRelevantChunks returns at most count items; they are input
\* candidates with a non-empty embedding, taken from distinct positions of
\* the input, in order of non-increasing score, and two neighbours of equal
\* score stand in their input order.
C11_TopKSorted ==
    calls.op = "findRelevantChunks" =>
        LET input == calls.embeddedChunks
            result == calls.result
        IN  /\ Len(result) <= calls.count
            /\ \E idx \in [1..Len(result) -> 1..Len(input)] :
                  /\ \A i \in 1..Len(result) :
                        /\ HasEmbedding(input[idx[i]])
                        /\ WithoutScore(result[i]) = input[idx[i]]
                  /\ \A i, j \in 1..Len(result) : i # j => idx[i] # idx[j]
                  /\ \A i \in 1..(Len(result) - 1) :
                        /\ ~ScoreLess(result[i].score, result[i + 1].score)
                        /\ SameScore(result[i].score, result[i + 1].score)
                              => idx[i] < idx[i + 1]
C11_Witness ==
    /\ calls.op = "findRelevantChunks"
    /\ calls.count = 2
    /\ Len(calls.embeddedChunks) = 3
    /\ calls.embeddedChunks[1].text = <<"c", "c">>
    /\ calls.embeddedChunks[2].text = <<"d">>
    /\ calls.embeddedChunks[3].text = <<"a">>
    /\ Len(calls.result) = 2
    /\ calls.result[1].text = <<"a">>
    /\ calls.result[2].text = <<"c", "c">>

\* The embedding capability can fail on the query: the text is not cached
\* and an exhausted retry raises.
EmbeddingCanFail(query) ==
    \E e \in generateEmbedding(query, embeddingCache, devMode) : ~e.ok

\* C12: findRelevantChunks has a return for every input and every behaviour
\* of the embedding capability: the empty sequence when the input is empty,
\* when no candidate has an embedding and when embedding the query fails;
\* getRelevantMessages then returns the empty context, so the caller goes
\* on to generation.
C12_RetrievalNeverFails ==
    /\ calls.op = "findRelevantChunks" =>
          ((\/ calls.embeddedChunks = <<>>
            \/ SelectSeq(calls.embeddedChunks, HasEmbedding) = <<>>
            \/ calls.failed) => calls.result = <<>>)
    /\ calls.op = "getRelevantMessages" =>
          (calls.failed => calls.result = <<>>)
    /\ calls = NoCall =>
          /\ \A query \in Messages, count \in 0..MaxCandidates,
                embeddedChunks \in SeqsUpTo(Candidates, MaxCandidates) :
                LET out == findRelevantChunks(query, embeddedChunks, count,
                                               embeddingCache, devMode)
                IN  /\ out # {}
                    /\ (embeddedChunks # <<>> /\ EmbeddingCanFail(query)) =>
                          \E r \in out : r.failed /\ r.result = <<>>
          /\ \A query \in Messages, chat \in RetrievalChats :
                getRelevantMessages(chat, query, embeddingCache, devMode) # {}
C12_Witness ==
    /\ calls.op = "findRelevantChunks"
    /\ calls.failed
    /\ SelectSeq(calls.embeddedChunks, HasEmbedding) # <<>>
    /\ calls.count > 0
    /\ calls.result = <<>>

\* Steps of one caller's generateEmbedding call.
Issued(c) == calls'[c].n # calls[c].n
Hit(c) == Issued(c) /\ calls'[c].pc = "returned"
Inserted(c) ==
    calls[c].pc = "pending" /\ calls'[c].pc = "returned"
        /\ ~calls'[c].exhausted
GaveUp(c) == calls[c].pc = "pending" /\ calls'[c].exhausted
KeyOf(text) == SubSeq(text, 1, Min(CacheKeyLen, Len(text)))
Entry(c) == [key |-> KeyOf(calls[c].text), value |-> calls'[c].embedding]
Keys(cache) == {cache[i].key : i \in 1..Len(cache)}

\* C13: the cache never holds more than its capacity (1000 in the source,
\* MaxCacheSize here); a successful insert of a new key into a full cache
\* removes exactly the entry inserted earliest and appends the new one; a
\* hit leaves the cache, and with it the eviction order, as it was.
C13_Step ==
    /\ Len(embeddingCache') <= MaxCacheSize
    /\ \A c \in Callers :
          /\ (Inserted(c) /\ KeyOf(calls[c].text) \notin Keys(embeddingCache)) =>
                IF Len(embeddingCache) = MaxCacheSize
                THEN embeddingCache' = Append(Tail(embeddingCache), Entry(c))
                ELSE embeddingCache' = Append(embeddingCache, Entry(c))
          /\ Hit(c) => embeddingCache' = embeddingCache
C13_InsertionOrderEviction == [][C13_Step]_vars
C13_Witness ==
    /\ Len(embeddingCache) = MaxCacheSize
    /\ KeyText(1) \notin Keys(embeddingCache)
    /\ KeyText(MaxCacheSize + 1) \in Keys(embeddingCache)
    /\ \E c \in Callers :
          /\ calls[c].pc = "returned" /\ calls[c].text = KeyText(1)
          /\ calls[c].attempts = 0

\* C14: a call whose text has its first CacheKeyLen characters (100 in the
\* source) cached returns the cached vector at once: no invocation of the
\* embedding capability, no change of the cache.
C14_Step ==
    \A c \in Callers :
        (Issued(c) /\ KeyOf(calls'[c].text) \in Keys(embeddingCache)) =>
            /\ calls'[c].pc = "returned"
            /\ calls'[c].attempts = 0
            /\ \E i \in 1..Len(embeddingCache) :
                  /\ embeddingCache[i].key = KeyOf(calls'[c].text)
                  /\ embeddingCache[i].value = calls'[c].embedding
            /\ embeddingCache' = embeddingCache
C14_HitByPrefix == [][C14_Step]_vars
C14_Witness ==
    \E c, d \in Callers :
        /\ calls[c].pc = "returned" /\ calls[c].text = KeyText(1) \o <<"a">>
        /\ calls[c].attempts = 0
        /\ calls[d].pc = "returned" /\ calls[d].text = KeyText(1)
        /\ calls[d].attempts = 2
        /\ calls[c].embedding = calls[d].embedding
        /\ calls[c].embedding = <<0, 1>>

\* C15: under every interleaving of the callers the cache holds at most
\* its capacity, no key twice, and each entry added or overwritten by a step
\* is the vector the embedding capability just returned to a call whose
\* text has that key as its prefix.
C15_Uncorrupted ==
    /\ Len(embeddingCache) <= MaxCacheSize
    /\ \A i, j \in 1..Len(embeddingCache) :
          embeddingCache[i].key = embeddingCache[j].key => i = j
C15_Step ==
    \A i \in 1..Len(embeddingCache') :
        \/ \E j \in 1..Len(embeddingCache) :
              embeddingCache[j] = embeddingCache'[i]
        \/ \E c \in Callers :
              /\ Inserted(c)
              /\ embeddingCache'[i] = Entry(c)
              /\ calls'[c].embedding \in EmbeddingValues
C15_ConcurrentCallsSafe == [](C15_Uncorrupted) /\ [][C15_Step]_vars
C15_Witness ==
    /\ \A c \in Callers :
          /\ calls[c].pc = "returned" /\ calls[c].n = 1
          /\ calls[c].attempts >= 1 /\ ~calls[c].exhausted
          /\ calls[c].text = KeyText(1)
    /\ calls["r1"].embedding # calls["r2"].embedding
    /\ Len(embeddingCache) = 1
    /\ embeddingCache[1].key = KeyText(1)

\* C16 as claimed: when every invocation has failed the call fails with
\* the embedding failure and returns no vector.
C16_ExhaustedRaises ==
    \A c \in Callers :
        calls[c].exhausted =>
            (calls[c].pc = "raised" /\ calls[c].embedding = <<>>)

\* C16 as amended: a call invokes the embedding capability at most
\* maxRetries + 1 = 3 times; a successful invocation's vector is returned
\* and cached; when all 3 fail the cache is left unchanged and the call
\* raises the embedding failure, except in development, where it returns a
\* random vector.
C16_Step ==
    \A c \in Callers :
        /\ calls'[c].attempts <= maxRetries + 1
        /\ Inserted(c) =>
              /\ calls'[c].embedding \in EmbeddingValues
              /\ \E i \in 1..Len(embeddingCache') :
                    embeddingCache'[i] = Entry(c)
        /\ GaveUp(c) =>
              /\ calls[c].attempts = maxRetries + 1
              /\ embeddingCache' = embeddingCache
              /\ IF devMode
                 THEN calls'[c].pc = "returned" /\ calls'[c].embedding # <<>>
                 ELSE calls'[c].pc = "raised" /\ calls'[c].embedding = <<>>
        /\ (calls[c].pc = "pending" /\ calls'[c].pc = "raised") => GaveUp(c)
C16_BoundedRetry == [][C16_Step]_vars
C16_Witness ==
    /\ ~devMode
    /\ calls["r1"].pc = "raised" /\ calls["r1"].attempts = 3
    /\ calls["r2"].pc = "returned" /\ calls["r2"].attempts = 3
    /\ ~calls["r2"].exhausted

\* The elements carry the chunk texts in order; a chunk whose embedding
\* call raised has the empty embedding, every other one a vector.
EmbeddedInOrder(chunks, embeddedChunks, failed) ==
    /\ Len(embeddedChunks) = Len(chunks)
    /\ Len(failed) = Len(chunks)
    /\ \A i \in 1..Len(chunks) :
          /\ embeddedChunks[i].text = chunks[i]
          /\ failed[i] => embeddedChunks[i].embedding = <<>>
          /\ ~failed[i] => embeddedChunks[i].embedding \in Vectors

Sentences(text) == SelectSeq(SplitSentences(text), LAMBDA piece : piece # <<>>)

\* The seed of chunk i: the last Overlap characters of chunk i - 1.
Seed(chunks, i) ==
    IF i = 1 THEN <<>>
    ELSE SubSeq(chunks[i - 1], Max(1, Len(chunks[i - 1]) - Overlap + 1),
                Len(chunks[i - 1]))

\* Chunk i without its leading seed.
Remainder(chunks, i) ==
    SubSeq(chunks[i], Len(Seed(chunks, i)) + 1, Len(chunks[i]))

\* The sentences of the remainders of chunks i.., in order.
RECURSIVE RemainderSentences(_, _)
RemainderSentences(chunks, i) ==
    IF i > Len(chunks) THEN <<>>
    ELSE Sentences(Remainder(chunks, i)) \o RemainderSentences(chunks, i + 1)

\* C18: for a text longer than chunkSize every chunk after the first starts
\* with the last Overlap characters of its predecessor, and the sentences
\* of the chunks without these seeds, taken chunk by chunk, are the
\* sentences of the text, each once and in order.
C18_ChunksReconstruct ==
    (calls.op = "chunkText" /\ Len(calls.text) > ChunkSize) =>
       /\ \A i \in 2..Len(calls.chunks) :
             /\ Len(calls.chunks[i]) >= Len(Seed(calls.chunks, i))
             /\ SubSeq(calls.chunks[i], 1, Len(Seed(calls.chunks, i)))
                   = Seed(calls.chunks, i)
       /\ RemainderSentences(calls.chunks, 1) = Sentences(calls.text)
C18_Witness ==
    /\ calls.op = "chunkText"
    /\ Len(calls.text) > ChunkSize
    /\ Len(calls.chunks) = 2
    /\ Len(Sentences(calls.chunks[1])) = 2
    /\ Seed(calls.chunks, 2) # <<>>
    /\ Seed(calls.chunks, 2) # SubSeq(calls.chunks[1], 1, Overlap)
    /\ Len(Sentences(calls.text)) = 3

\* C19 (as claimed): once the conversation context of a request is
\* gathered, with n the number of messages after the append: if n < 6 the
\* context is empty; otherwise the retrieval candidates are the embedded
\* messages at positions below n - 6, the messages before the ones
\* supplied as recent history.
C19_CandidatesBelowHistory ==
    pc = "generate" =>
       LET n == Len(frame.chat.messages)
       IN  /\ n < 6 => frame.relevantMessageContext = <<>>
           /\ n >= 6 =>
                 /\ messagesWithEmbeddings(frame.chat)
                      = SelectSeq(SubSeq(frame.chat.messages, 1, n - 6),
                                  HasEmbedding)
                 /\ Len(Slice(frame.chat.messages, 0, 0 - RecentCount))
                       + Len(recentMessages(frame.chat)) + 1 <= n

\* The stored conversation c1 began empty and the request now COMPLETED is
\* the first one to complete on it: its AI message is the only one, after
\* the user messages of the requests that failed.
FirstCompleted ==
    /\ COMPLETED
    /\ frame.chatId = "c1"
    /\ Len(store["c1"].messages) >= 2
    /\ \A k \in 1..Len(store["c1"].messages) :
          store["c1"].messages[k].sender = "ai" <=> k = Len(store["c1"].messages)

\* C20 (as claimed): the first request that completes on a conversation
\* that began empty leaves the conversation with a title that was set,
\* also after earlier requests that failed behind their saved user message.
C20_FirstCompletedSetsTitle ==
    FirstCompleted => store["c1"].title # DefaultTitle

\* The requests on conversation c1 that completed having assigned the title.
TitleAssigners ==
    {c \in Callers : /\ calls[c].pc = "done"
                     /\ calls[c].response.status = 200
                     /\ calls[c].chatId = "c1"
                     /\ calls[c].titled}

\* C21 (as claimed): over the requests on one conversation, overlapping
\* ones included, at most one request assigns the title.
C21_TitleAssignedOnce == Cardinality(TitleAssigners) <= 1

\* C23 (as claimed): a sendImageMessage request that received an image has
\* attempted to unlink it by the time it ends, whatever its outcome.
C23_ImageUnlinked ==
    \A c \in Callers :
       (calls[c].pc = "done" /\ calls[c].file) => calls[c].unlinks >= 1

\* The value 0 and the defined values; a fraction with denominator 0 is
\* what a division by zero leaves (NaN or an infinity).
IsZero(x) == x.n = 0 /\ x.d # 0
Degenerate(a) == ~a.given \/ a.vec = <<>> \/ Dot(a.vec, a.vec) = 0

C22_TitleBounded ==
    calls.op \in {"sendMessage", "sendImageMessage"} =>
       /\ Len(calls.title) <= 50
       /\ ~calls.raised
       /\ calls.generated =>
             calls.title = IF Len(calls.suggestedTitle) > 50
                           THEN SubSeq(calls.suggestedTitle, 1, 47)
                                   \o <<".", ".", ".">>
                           ELSE calls.suggestedTitle
       /\ (~calls.generated /\ calls.op = "sendMessage") =>
             calls.title = IF Len(calls.message) > 30
                           THEN SubSeq(calls.message, 1, 27)
                                   \o <<".", ".", ".">>
                           ELSE calls.message
C22_Witness ==
    /\ calls.op = "sendMessage"
    /\ calls.generated
    /\ Len(calls.suggestedTitle) = 51
    /\ Len(calls.title) = 50
    /\ calls.title[47] = calls.suggestedTitle[47]
    /\ calls.title[50] = "."

\* The observable order within the request in flight.
C25_Order ==
    /\ \A i \in 1..Len(events) :
          /\ (events[i].type = "processing" /\ events[i].status = "started") =>
                /\ i = 1
                /\ UserAppended
                /\ Len(Stored.messages) > Len(frame.before.messages)
                /\ Stored.messages[Len(frame.before.messages) + 1]
                      = frame.chat.messages[Len(frame.before.messages) + 1]
          /\ events[i].type = "message-chunk" =>
                /\ i > 1
                /\ events[1] = Started(frame.chatId)
          /\ (events[i].type = "processing" /\ events[i].status = "completed") =>
                /\ i = Len(events)
                /\ pc = "done"
                /\ Last(Stored.messages).sender = "ai"
                /\ Last(Stored.messages).content = frame.aiReply
                /\ Stored.messages = frame.chat.messages
    /\ pc = "streaming" => events # <<>> \/ ~io
C25_Step ==
    /\ (pc' = "streaming" /\ pc # "streaming") => pc = "generate"
    /\ (pc' = "generate" /\ pc # "generate") => pc = "messageContext"
    /\ (pc' = "messageContext" /\ pc # "messageContext") => pc = "fileContext"
    /\ (pc' = "fileContext" /\ pc # "fileContext") =>
          \/ pc = "summarize"
          \/ pc = "started" /\ ~shouldSummarize(Len(frame.chat.messages))
    /\ (pc' = "summarize" /\ pc # "summarize") => pc = "started"
    /\ (pc' = "started" /\ pc # "started") =>
          /\ pc = "embedUser"
          /\ events' = <<>>
          /\ Last(store'[frame'.chatId].messages).sender = "user"
          /\ Last(store'[frame'.chatId].messages).content = frame'.message

\* C25: in a sendMessage request the user message is appended and saved
\* before 'processing started', which comes before every message-chunk
\* event; the generation call starts only after the summarization (when
\* triggered) and the two context retrievals; 'processing completed' is the
\* last event, emitted after the AI message is appended and saved.
C25_FixedOrder == [](C25_Order) /\ [][C25_Step]_vars
C25_Witness ==
    /\ COMPLETED
    /\ Len(events) = 4
    /\ events[1] = Started(frame.chatId)
    /\ events[2].type = "message-chunk"
    /\ events[3].type = "message-chunk"
    /\ events[4] = Completed(frame.chatId, Stored.title)
    /\ Len(Stored.summaries) > Len(frame.before.summaries)

\* C26 (as claimed): every chunk of a text longer than chunkSize is
\* non-empty.
C26_ChunksNonEmpty ==
    (calls.op = "chunkText" /\ Len(calls.text) > ChunkSize) =>
       \A i \in 1..Len(calls.chunks) : calls.chunks[i] # <<>>

\* The characters of the files of other users: their names and chunk texts.
ForeignChars ==
    UNION {{Files[i].fileName[k] : k \in 1..Len(Files[i].fileName)}
              \cup UNION {{Files[i].chunks[j].text[k] :
                              k \in 1..Len(Files[i].chunks[j].text)} :
                          j \in 1..Len(Files[i].chunks)} :
           i \in {i \in 1..Len(Files) : Files[i].userId # Caller}}
OwnChars ==
    UNION {{Files[i].fileName[k] : k \in 1..Len(Files[i].fileName)}
              \cup UNION {{Files[i].chunks[j].text[k] :
                              k \in 1..Len(Files[i].chunks[j].text)} :
                          j \in 1..Len(Files[i].chunks)} :
           i \in {i \in 1..Len(Files) : Files[i].userId = Caller}}
OwnedIds == {Files[i].id : i \in {i \in 1..Len(Files) : Files[i].userId = Caller}}

\* C27: whatever file ids the request names, the file references of its
\* user message and the file context of its prompt come only from files
\* that the request names and the caller owns.
C27_OwnFilesOnly ==
    pc \notin {"idle", "embedUser"} /\ response.status # 404 =>
       /\ \A i \in 1..Len(frame.fileReferences) :
             frame.fileReferences[i].fileId \in frame.fileIds \cap OwnedIds
       /\ \A m \in 1..Len(Stored.messages) :
             \A i \in 1..Len(Stored.messages[m].fileRefs) :
                "fileId" \in DOMAIN Stored.messages[m].fileRefs[i] =>
                   Stored.messages[m].fileRefs[i].fileId \in OwnedIds
       /\ \A k \in 1..Len(frame.fileContext) :
             frame.fileContext[k] \notin ForeignChars \ OwnChars
       /\ frame.fileIds = {} => frame.fileContext = <<>>
C27_Witness ==
    /\ pc = "generate"
    /\ frame.fileIds \ OwnedIds # {}
    /\ frame.fileContext # <<>>
    /\ Len(frame.fileReferences) = 1
    /\ Last(Stored.messages).fileRefs = frame.fileReferences
====
